---- MODULE Spec2Model ----
(***************************************************************************)
(* A model of rag_pipeline.py: date extraction, chunking, noise filtering, *)
(* conflict resolution, answer composition and the pipeline orchestration. *)
(* Strings are sequences of tokens; a Python dict is a function whose      *)
(* DOMAIN is its key set; object identity is an index into a heap.         *)
(***************************************************************************)
EXTENDS Integers, Sequences, FiniteSets, TLC

VARIABLES
    pc,          \* position of the operation under study
    text,        \* extract_effective_date: the document's content
    filename,    \* extract_effective_date: the file's name
    filepath,    \* extract_effective_date: None, or the state of the file at the path
    result,      \* extract_effective_date: the value returned
    calls,       \* extract_effective_date: the strategies consulted, in order
    heap,        \* the metadata dicts, by object identity (index)
    documents,   \* chunk_documents: the argument, a list of Document
    chunks,      \* a list of Chunk: chunk_documents' result, the argument of
                 \* filter_noise and of resolve_policy_conflicts
    filtered,    \* filter_noise: the list returned
    selected,    \* resolve_policy_conflicts: the chunk returned
    response,    \* generate_answer: the content of the model's reply
    answer,      \* generate_answer: the string returned
    raised,      \* the exception that ended the operation ("": none)
    kb,          \* the files of the knowledge_base directory
    indexDir,    \* the faiss_index directory: whether it exists, the index in it
    vector_store,\* run_pipeline: the index in use
    retrieved,   \* run_pipeline: the list returned by retrieve_chunks
    trace,       \* what the current run_pipeline has done so far, in order
    runs,        \* the run_pipeline invocations started
    builds,      \* the indexes built and saved
    deletes      \* the times faiss_index was removed from outside

dateVars == <<text, filename, filepath, result, calls>>
chunkVars == <<heap, documents, chunks>>
queryVars == <<filtered, selected, response, answer, raised>>
pipeVars == <<kb, indexDir, vector_store, retrieved, trace, runs, builds, deletes>>
vars == <<pc, dateVars, chunkVars, queryVars, pipeVars>>

\* Python's None
NoValue == [none |-> TRUE]

DateIdle ==
    /\ text = <<>> /\ filename = <<>> /\ filepath = NoValue
    /\ result = NoValue /\ calls = <<>>

ChunkIdle == heap = <<>> /\ documents = <<>> /\ chunks = NoValue

QueryIdle ==
    /\ filtered = NoValue /\ selected = NoValue
    /\ response = NoValue /\ answer = NoValue /\ raised = ""

NoIndex == [exists |-> FALSE, index |-> <<>>]

PipeIdle ==
    /\ kb = <<>> /\ indexDir = NoIndex /\ vector_store = NoValue
    /\ retrieved = NoValue /\ trace = <<>>
    /\ runs = 0 /\ builds = 0 /\ deletes = 0

\* ------------------------------------------------------------------------
\* Bounds of the model
\* ------------------------------------------------------------------------
MaxLines == 3
MaxNameParts == 5
MaxPhrases == 2
MaxCandidates == 4
MaxPolicies == 3
MaxResponseParts == 4
MaxRuns == 3
MaxDeletes == 1

\* Lengths of the stripped lines the documents are made of (0: a blank line).
LenSet == {1, 200, 300, 501}

\* ------------------------------------------------------------------------
\* Configuration (rag_pipeline.py:27-30)
\* ------------------------------------------------------------------------
CHUNK_SIZE == 500
TOP_K == 4

\* ------------------------------------------------------------------------
\* Generic helpers
\* ------------------------------------------------------------------------
\* LET x == v IN F(x), with v evaluated once, before F
With(v, F(_)) == CHOOSE r \in {F(x) : x \in {v}} : TRUE

RECURSIVE SumLen(_)
SumLen(s) == IF s = <<>> THEN 0 ELSE Head(s).len + SumLen(Tail(s))

RECURSIVE SeqsUpTo(_, _)
SeqsUpTo(S, n) ==
    IF n = 0 THEN {<<>>}
    ELSE LET shorter == SeqsUpTo(S, n - 1)
         IN  shorter \cup {Append(s, x) : s \in {t \in shorter : Len(t) = n - 1}, x \in S}

\* ------------------------------------------------------------------------
\* Characters and the regular-expression classes used by the patterns
\* ------------------------------------------------------------------------
\* A string is a sequence of one-character strings.
Digits == <<"0", "1", "2", "3", "4", "5", "6", "7", "8", "9">>
LowerCase == <<"a", "b", "c", "d", "e", "f", "g", "h", "i", "j", "k", "l", "m", "n", "o", "p", "q", "r", "s", "t", "u", "v", "w", "x", "y", "z">>
UpperCase == <<"A", "B", "C", "D", "E", "F", "G", "H", "I", "J", "K", "L", "M", "N", "O", "P", "Q", "R", "S", "T", "U", "V", "W", "X", "Y", "Z">>

Range(s) == {s[i] : i \in DOMAIN s}
IndexOf(s, c) == CHOOSE i \in DOMAIN s : s[i] = c

DigitSet == Range(Digits)
UpperSet == Range(UpperCase)
AlphaSet == Range(LowerCase) \cup Range(UpperCase)

\* \d, [A-Za-z], [-_], \s and \w
IsDigit(c) == c \in DigitSet
IsAlpha(c) == c \in AlphaSet
IsSep(c) == c \in {"-", "_"}
IsSpace(c) == c \in {" ", "\n", "\t"}
IsWord(c) == IsDigit(c) \/ IsAlpha(c) \/ c = "_"

\* str.lower()
LowerChar(c) == IF c \in UpperSet THEN LowerCase[IndexOf(UpperCase, c)] ELSE c
Lower(s) == [i \in DOMAIN s |-> LowerChar(s[i])]

\* s[i:i+n] holds n characters of the class
DigitsAt(s, i, n) == i + n - 1 <= Len(s) /\ \A k \in i..(i + n - 1) : IsDigit(s[k])
AlphasAt(s, i, n) == i + n - 1 <= Len(s) /\ \A k \in i..(i + n - 1) : IsAlpha(s[k])

\* int(s[i:i+n]) of n digits
RECURSIVE IntAt(_, _, _)
IntAt(s, i, n) ==
    IF n = 0 THEN 0
    ELSE 10 * IntAt(s, i, n - 1) + (IndexOf(Digits, s[i + n - 1]) - 1)

\* the literal lit (in lower case) is at s[i:], whatever the case (re.IGNORECASE)
LiteralAt(s, i, lit) ==
    /\ i >= 1
    /\ i + Len(lit) - 1 <= Len(s)
    /\ \A k \in 1..Len(lit) : LowerChar(s[i + k - 1]) = lit[k]

\* the end of the longest run of the class from s[i] on (i - 1 when none)
RECURSIVE SpaceEnd(_, _)
SpaceEnd(s, i) == IF i <= Len(s) /\ IsSpace(s[i]) THEN SpaceEnd(s, i + 1) ELSE i - 1
RECURSIVE AlphaEnd(_, _)
AlphaEnd(s, i) == IF i <= Len(s) /\ IsAlpha(s[i]) THEN AlphaEnd(s, i + 1) ELSE i - 1
RECURSIVE DigitEnd(_, _)
DigitEnd(s, i) == IF i <= Len(s) /\ IsDigit(s[i]) THEN DigitEnd(s, i + 1) ELSE i - 1

\* re.search: the leftmost position among those where the pattern matches (0: none)
Leftmost(positions) ==
    With(positions, LAMBDA found :
        IF found = {} THEN 0
        ELSE CHOOSE i \in found : \A j \in found : i <= j)

\* ------------------------------------------------------------------------
\* datetime
\* ------------------------------------------------------------------------
\* the exception a bad date raises
ValueError == [error |-> "ValueError"]

IsLeap(y) == y % 4 = 0 /\ (y % 100 # 0 \/ y % 400 = 0)

DaysInMonth(y, m) ==
    IF m = 2 THEN (IF IsLeap(y) THEN 29 ELSE 28)
    ELSE IF m \in {4, 6, 9, 11} THEN 30 ELSE 31

\* datetime(year, month, day): the date at midnight, or ValueError
Datetime(y, m, d) ==
    IF y \in 1..9999 /\ m \in 1..12 /\ d \in 1..DaysInMonth(y, m)
    THEN [year |-> y, month |-> m, day |-> d, hour |-> 0]
    ELSE ValueError

\* ------------------------------------------------------------------------
\* extract_date_from_filename (rag_pipeline.py:40-84)
\* ------------------------------------------------------------------------
\* A slip of line 54: the range test left out
YearAcceptedAlways(year) == TRUE

\* 2000 <= year <= 2099 (lines 54 and 78)
YearAccepted(year) == 2000 <= year /\ year <= 2099

\* month_map (lines 69-73): the month of a three-letter key, 0 when absent
MonthKeys == <<<<"j", "a", "n">>, <<"f", "e", "b">>, <<"m", "a", "r">>, <<"a", "p", "r">>,
               <<"m", "a", "y">>, <<"j", "u", "n">>, <<"j", "u", "l">>, <<"a", "u", "g">>,
               <<"s", "e", "p">>, <<"o", "c", "t">>, <<"n", "o", "v">>, <<"d", "e", "c">>>>

MonthKeySet == Range(MonthKeys)

MonthMap(key) ==
    IF key \in MonthKeySet THEN IndexOf(MonthKeys, key) ELSE 0

\* r'(\d{4})' matches at i
YearAt(s, i) == DigitsAt(s, i, 4)

\* r'(\d{4})[-_](\d{2})[-_](\d{2})' matches at i
FullDateAt(s, i) ==
    /\ i + 9 <= Len(s)
    /\ DigitsAt(s, i, 4) /\ IsSep(s[i + 4])
    /\ DigitsAt(s, i + 5, 2) /\ IsSep(s[i + 7])
    /\ DigitsAt(s, i + 8, 2)

\* r'([A-Za-z]{3,9})[-_](\d{4})' matches at i with n letters
MonthYearAt(s, i, n) ==
    /\ i + n + 4 <= Len(s)
    /\ AlphasAt(s, i, n) /\ IsSep(s[i + n]) /\ DigitsAt(s, i + n + 1, 4)

\* Pattern 3 (lines 68-84), on filename.lower()
FilenameMonthYear(name) ==
    With(Lower(name), LAMBDA s :
    With(Leftmost({j \in 1..Len(s) : \E n \in 3..9 : MonthYearAt(s, j, n)}), LAMBDA i :
        IF i = 0 THEN NoValue
        ELSE LET n     == CHOOSE k \in 3..9 : MonthYearAt(s, i, k)
                 month == MonthMap(SubSeq(s, i, i + 2))
                 year  == IntAt(s, i + n + 1, 4)
             IN  IF month # 0 /\ YearAccepted(year)
                 THEN Datetime(year, month, 1)
                 ELSE NoValue))

\* Pattern 2 (lines 58-66), then pattern 3
FilenameFullDate(s) ==
    With(Leftmost({j \in 1..Len(s) : FullDateAt(s, j)}), LAMBDA i :
    With(IF i = 0 THEN ValueError
         ELSE Datetime(IntAt(s, i, 4), IntAt(s, i + 5, 2), IntAt(s, i + 8, 2)), LAMBDA date :
        IF i # 0 /\ date # ValueError
        THEN date
        ELSE FilenameMonthYear(s)))

\* Pattern 1 (lines 50-56), then pattern 2
extract_date_from_filename(s) ==
    With(Leftmost({j \in 1..Len(s) : YearAt(s, j)}), LAMBDA i :
        IF i # 0 /\ YearAccepted(IntAt(s, i, 4))
        THEN Datetime(IntAt(s, i, 4), 1, 1)
        ELSE FilenameFullDate(s))

\* ------------------------------------------------------------------------
\* extract_date_from_content (rag_pipeline.py:87-166)
\* ------------------------------------------------------------------------
YEAR_SEARCH_CHARS == 200

\* The full month names of %B, in lower case (%b: their first three letters)
MonthNames ==
    <<<<"j", "a", "n", "u", "a", "r", "y">>,
      <<"f", "e", "b", "r", "u", "a", "r", "y">>,
      <<"m", "a", "r", "c", "h">>,
      <<"a", "p", "r", "i", "l">>,
      <<"m", "a", "y">>,
      <<"j", "u", "n", "e">>,
      <<"j", "u", "l", "y">>,
      <<"a", "u", "g", "u", "s", "t">>,
      <<"s", "e", "p", "t", "e", "m", "b", "e", "r">>,
      <<"o", "c", "t", "o", "b", "e", "r">>,
      <<"n", "o", "v", "e", "m", "b", "e", "r">>,
      <<"d", "e", "c", "e", "m", "b", "e", "r">>>>

MonthNameSet == Range(MonthNames)

\* datetime.strptime on the pieces m a pattern captured: the letters, the
\* day's digits (<<>> when the captured text has no day) and the year's four
\* digits.  A format is its month directive ("B" or "b") and whether it has %d.
Strptime(m, directive, hasDay) ==
    LET name  == Lower(m.letters)
        month == IF directive = "B"
                 THEN (IF name \in MonthNameSet THEN IndexOf(MonthNames, name) ELSE 0)
                 ELSE (IF Len(name) = 3 THEN MonthMap(name) ELSE 0)
        d     == IF hasDay THEN IntAt(m.day, 1, Len(m.day)) ELSE 1
    IN  IF /\ month # 0
           /\ hasDay <=> (m.day # <<>>)
           /\ d \in 1..31
        THEN Datetime(IntAt(m.year, 1, 4), month, d)
        ELSE ValueError

\* <lit>\s*([A-Za-z]+\s+\d{1,2},\s+\d{4}) at i, the comma required or
\* optional: the positions of the pieces, or none.
MonthDayYearAt(s, i, lit, commaOptional) ==
    IF ~LiteralAt(s, i, lit) THEN [found |-> FALSE]
    ELSE
    With(SpaceEnd(s, i + Len(lit)) + 1,          LAMBDA a1 :  \* first letter
    With(AlphaEnd(s, a1),                        LAMBDA a2 :  \* last letter
    With(SpaceEnd(s, a2 + 1) + 1,                LAMBDA d1 :  \* first digit of the day
    With(DigitEnd(s, d1),                        LAMBDA d2 :  \* last digit of the day
    With(d2 + 1 <= Len(s) /\ s[d2 + 1] = ",",    LAMBDA hasComma :
    With(IF hasComma THEN d2 + 2 ELSE d2 + 1,    LAMBDA w1 :
    With(SpaceEnd(s, w1) + 1,                    LAMBDA y1 :  \* first digit of the year
        IF /\ a2 >= a1 /\ d1 > a2 + 1
           /\ d2 - d1 + 1 \in {1, 2}
           /\ hasComma \/ commaOptional
           /\ y1 > w1 /\ DigitsAt(s, y1, 4)
        THEN [found |-> TRUE, letters |-> SubSeq(s, a1, a2), day |-> SubSeq(s, d1, d2),
              year |-> SubSeq(s, y1, y1 + 3), end |-> y1 + 3]
        ELSE [found |-> FALSE])))))))

\* <lit>\s*([A-Za-z]+\s+\d{4}) at i
MonthYearTextAt(s, i, lit) ==
    IF ~LiteralAt(s, i, lit) THEN [found |-> FALSE]
    ELSE
    With(SpaceEnd(s, i + Len(lit)) + 1,          LAMBDA a1 :  \* first letter
    With(AlphaEnd(s, a1),                        LAMBDA a2 :  \* last letter
    With(SpaceEnd(s, a2 + 1) + 1,                LAMBDA y1 :  \* first digit of the year
        IF a2 >= a1 /\ y1 > a2 + 1 /\ DigitsAt(s, y1, 4)
        THEN [found |-> TRUE, letters |-> SubSeq(s, a1, a2), day |-> <<>>,
              year |-> SubSeq(s, y1, y1 + 3), end |-> y1 + 3]
        ELSE [found |-> FALSE])))

LitEffectiveDate ==
    <<"e", "f", "f", "e", "c", "t", "i", "v", "e", " ", "d", "a", "t",
      "e", ":">>
LitParenEffectiveDate ==
    <<"(", "e", "f", "f", "e", "c", "t", "i", "v", "e", " ", "d", "a",
      "t", "e", ":">>
LitUpdated ==
    <<"u", "p", "d", "a", "t", "e", "d", ":">>
LitLastUpdated ==
    <<"l", "a", "s", "t", " ", "u", "p", "d", "a", "t", "e", "d", ":">>
LitAsOf ==
    <<"a", "s", " ", "o", "f", ":">>
LitValidFrom ==
    <<"v", "a", "l", "i", "d", " ", "f", "r", "o", "m", ":">>
LitIssued ==
    <<"i", "s", "s", "u", "e", "d", ":">>

\* Pattern 5 (lines 156-163): r'\b(20\d{2})\b' in text[:200]
BareYearAt(first, i) ==
    /\ i + 3 <= Len(first)
    /\ first[i] = "2" /\ first[i + 1] = "0"
    /\ DigitsAt(first, i + 2, 2)
    /\ i = 1 \/ ~IsWord(first[i - 1])
    /\ i + 4 > Len(first) \/ ~IsWord(first[i + 4])

ContentBareYear(s) ==
    With(SubSeq(s, 1, IF Len(s) < YEAR_SEARCH_CHARS THEN Len(s) ELSE YEAR_SEARCH_CHARS),
         LAMBDA first :
    With(Leftmost({j \in 1..Len(first) : BareYearAt(first, j)}), LAMBDA i :
        IF i # 0 THEN Datetime(IntAt(first, i, 4), 1, 1) ELSE NoValue))

\* the first of the formats of line 148 that parses date_str
RECURSIVE FirstFormat(_, _)
FirstFormat(m, formats) ==
    IF formats = <<>> THEN ValueError
    ELSE With(Strptime(m, Head(formats)[1], Head(formats)[2]), LAMBDA date :
             IF date # ValueError THEN date ELSE FirstFormat(m, Tail(formats)))

\* Pattern 4 (lines 140-154), then pattern 5
DateVariantAt(s, j) ==
    IF LiteralAt(s, j, LitAsOf) THEN MonthDayYearAt(s, j, LitAsOf, TRUE)
    ELSE IF LiteralAt(s, j, LitValidFrom) THEN MonthDayYearAt(s, j, LitValidFrom, TRUE)
    ELSE MonthDayYearAt(s, j, LitIssued, TRUE)

ContentDateVariant(s) ==
    With(Leftmost({j \in 1..Len(s) : DateVariantAt(s, j).found}), LAMBDA i :
    With(DateVariantAt(s, i), LAMBDA m :
    With(IF m.found
         THEN FirstFormat(m, <<<<"B", TRUE>>, <<"b", TRUE>>, <<"B", FALSE>>, <<"b", FALSE>>>>)
         ELSE ValueError, LAMBDA date :
        IF m.found /\ date # ValueError THEN date ELSE ContentBareYear(s))))

\* Pattern 3 (lines 121-138), then pattern 4
UpdatedAt(s, j) ==
    IF LiteralAt(s, j, LitUpdated) THEN MonthYearTextAt(s, j, LitUpdated)
    ELSE MonthYearTextAt(s, j, LitLastUpdated)

ContentUpdated(s) ==
    With(Leftmost({j \in 1..Len(s) : UpdatedAt(s, j).found}), LAMBDA i :
    With(UpdatedAt(s, i), LAMBDA m :
    With(IF m.found THEN Strptime(m, "B", FALSE) ELSE ValueError, LAMBDA full :
    With(IF m.found THEN Strptime(m, "b", FALSE) ELSE ValueError, LAMBDA short :
        IF m.found /\ full # ValueError THEN full
        ELSE IF m.found /\ short # ValueError THEN short
        ELSE ContentDateVariant(s)))))

\* Pattern 2 (lines 107-119), then pattern 3
ParenEffectiveDateAt(s, j) ==
    With(MonthDayYearAt(s, j, LitParenEffectiveDate, FALSE), LAMBDA m :
        IF m.found /\ m.end + 1 <= Len(s) /\ s[m.end + 1] = ")"
        THEN m
        ELSE [found |-> FALSE])

ContentParenEffectiveDate(s) ==
    With(Leftmost({j \in 1..Len(s) : ParenEffectiveDateAt(s, j).found}), LAMBDA i :
    With(ParenEffectiveDateAt(s, i), LAMBDA m :
    With(IF m.found THEN Strptime(m, "b", TRUE) ELSE ValueError, LAMBDA date :
        IF m.found /\ date # ValueError THEN date ELSE ContentUpdated(s))))

\* Pattern 1 (lines 93-105), then pattern 2
extract_date_from_content(s) ==
    With(Leftmost({j \in 1..Len(s) : MonthDayYearAt(s, j, LitEffectiveDate, FALSE).found}),
         LAMBDA i :
    With(MonthDayYearAt(s, i, LitEffectiveDate, FALSE), LAMBDA m :
    With(IF m.found THEN Strptime(m, "b", TRUE) ELSE ValueError, LAMBDA date :
        IF m.found /\ date # ValueError THEN date ELSE ContentParenEffectiveDate(s))))

\* The parts the file names of the model are made of
NameParts ==
    {<<"1", "9", "9", "9">>,
     <<"2", "0", "2", "4">>,
     <<"0", "2">>,
     <<"3", "1">>,
     <<"_">>,
     <<"J", "a", "n">>,
     <<"p", "o", "l">>}

\* The concatenations of at most n parts
RECURSIVE Concatenations(_, _)
Concatenations(parts, n) ==
    IF n = 0 THEN {<<>>}
    ELSE LET shorter == Concatenations(parts, n - 1)
         IN  shorter \cup {s \o x : s \in shorter, x \in parts}

\* The call of extract_date_from_filename on its own
CallExtractDateFromFilename ==
    /\ pc = "filename_only"
    /\ result' = extract_date_from_filename(filename)
    /\ calls' = Append(calls, "filename")
    /\ pc' = "done"
    /\ UNCHANGED <<text, filename, filepath, chunkVars, queryVars, pipeVars>>

InitFilename ==
    /\ pc = "filename_only"
    /\ text = <<>>
    /\ filename \in Concatenations(NameParts, MaxNameParts)
    /\ filepath = NoValue
    /\ result = NoValue
    /\ calls = <<>>
    /\ ChunkIdle
    /\ QueryIdle
    /\ PipeIdle

NextFilename == CallExtractDateFromFilename

SpecFilename == InitFilename /\ [][NextFilename]_vars

\* ------------------------------------------------------------------------
\* extract_effective_date (rag_pipeline.py:180-209)
\* ------------------------------------------------------------------------
\* A slip of line 199: the test left out, filename_date returned as it is
ReturnsFilenameDateAlways(filename_date) == TRUE

\* if content_date: (line 194); a datetime is always true, None never
ReturnsContentDate(content_date) == content_date # NoValue

\* if filename_date: (line 199)
ReturnsFilenameDate(filename_date) == filename_date # NoValue

\* if filepath and os.path.exists(filepath): (line 203)
UsesModificationDate(path) == path # NoValue /\ path.path # "" /\ path.exists

\* get_file_modification_date (lines 169-177)
get_file_modification_date(path) == path.mtime

\* The body of extract_effective_date: the date returned and the strategies
\* consulted on the way, in order.
extract_effective_date(t, name, path) ==
    With(extract_date_from_content(t), LAMBDA content_date :
        IF ReturnsContentDate(content_date)
        THEN [date |-> content_date, calls |-> <<"content">>]
        ELSE
    With(extract_date_from_filename(name), LAMBDA filename_date :
        IF ReturnsFilenameDate(filename_date)
        THEN [date |-> filename_date, calls |-> <<"content", "filename">>]
        ELSE IF UsesModificationDate(path)
        THEN [date  |-> get_file_modification_date(path),
              calls |-> <<"content", "filename", "mtime">>]
        ELSE [date  |-> Datetime(1970, 1, 1),
              calls |-> <<"content", "filename", "default">>]))

CallExtractEffectiveDate ==
    /\ pc = "extract"
    /\ LET r == extract_effective_date(text, filename, filepath)
       IN  result' = r.date /\ calls' = r.calls
    /\ pc' = "done"
    /\ UNCHANGED <<text, filename, filepath, chunkVars, queryVars, pipeVars>>

\* The pieces of content the texts of the model are made of
Phrases ==
    {<<"E", "f", "f", "e", "c", "t", "i", "v", "e", " ", "D", "a", "t",
       "e", ":", " ", "M", "a", "r", " ", "3", ",", " ", "2", "0", "2",
       "3", " ">>,
     <<"e", "f", "f", "e", "c", "t", "i", "v", "e", " ", "d", "a", "t",
       "e", ":", " ", "M", "a", "r", "c", "h", " ", "3", ",", " ", "2",
       "0", "2", "3", " ">>,
     <<"(", "E", "f", "f", "e", "c", "t", "i", "v", "e", " ", "D", "a",
       "t", "e", ":", " ", "F", "e", "b", " ", "3", "0", ",", " ", "2",
       "0", "2", "3", ")", " ">>,
     <<"(", "E", "f", "f", "e", "c", "t", "i", "v", "e", " ", "D", "a",
       "t", "e", ":", " ", "J", "u", "n", " ", "5", ",", " ", "2", "0",
       "2", "1", ")", " ">>,
     <<"L", "a", "s", "t", " ", "U", "p", "d", "a", "t", "e", "d", ":",
       " ", "J", "a", "n", "u", "a", "r", "y", " ", "2", "0", "2", "2",
       " ">>,
     <<"U", "p", "d", "a", "t", "e", "d", ":", " ", "S", "e", "p", "t",
       " ", "2", "0", "2", "2", " ">>,
     <<"V", "a", "l", "i", "d", " ", "f", "r", "o", "m", ":", " ", "A",
       "p", "r", " ", "4", ",", " ", "2", "0", "2", "0", " ">>,
     <<"A", "s", " ", "o", "f", ":", " ", "M", "a", "y", " ", "2", "0",
       "1", "9", " ">>,
     <<"I", "s", "s", "u", "e", "d", ":", " ", "A", "p", "r", "i", "l",
       " ", "1", "4", " ", "2", "0", "1", "8", " ">>,
     <<"i", "n", " ", "2", "0", "1", "7", " ">>,
     <<"v", "2", "0", "1", "6", " ">>,
     [i \in 1..YEAR_SEARCH_CHARS |-> "x"]}

\* The file names of the model
DateFilenames ==
    {<<"W", "F", "H", "_", "P", "o", "l", "i", "c", "y", "_", "2", "0",
       "2", "4", ".", "t", "x", "t">>,
     <<"a", "r", "c", "h", "i", "v", "e", "_", "1", "9", "9", "9", "_",
       "r", "e", "p", "o", "r", "t", ".", "t", "x", "t">>}

\* The modification time of the file at the path, when there is one
FileTime == [year |-> 2025, month |-> 3, day |-> 9, hour |-> 14]

\* The filepath argument: None, or a path and the state of the file system there
FilePaths ==
    {NoValue,
     [path |-> "", exists |-> FALSE, mtime |-> NoValue],
     [path |-> "knowledge_base/f.txt", exists |-> FALSE, mtime |-> NoValue],
     [path |-> "knowledge_base/f.txt", exists |-> TRUE, mtime |-> FileTime]}

InitDate ==
    /\ pc = "extract"
    /\ text \in Concatenations(Phrases, MaxPhrases)
    /\ filename \in DateFilenames
    /\ filepath \in FilePaths
    /\ result = NoValue
    /\ calls = <<>>
    /\ ChunkIdle
    /\ QueryIdle
    /\ PipeIdle

NextDate == CallExtractEffectiveDate

SpecDate == InitDate /\ [][NextDate]_vars

\* ------------------------------------------------------------------------
\* 2. Chunking (rag_pipeline.py:277-304)
\* ------------------------------------------------------------------------
\* A line of doc.content between two "\n": pad whitespace characters around
\* len other characters.  A piece of text is a sequence of parts, each the
\* separating space or a stripped line (its line number and its length).
Lines == [pad : {0, 1}, len : {0} \cup LenSet]

Space == [line |-> 0, len |-> 1]

\* len(s)
StrLen(s) == SumLen(s)

\* s.strip(): the white space at both ends removed
RECURSIVE LStrip(_)
LStrip(s) == IF s # <<>> /\ Head(s) = Space THEN LStrip(Tail(s)) ELSE s

RECURSIVE RStrip(_)
RStrip(s) ==
    IF s # <<>> /\ s[Len(s)] = Space THEN RStrip(SubSeq(s, 1, Len(s) - 1)) ELSE s

Strip(s) == RStrip(LStrip(s))

\* p.strip() of one line of the content
StripLine(content, i) == <<[line |-> i, len |-> content[i].len]>>

\* [p.strip() for p in doc.content.split("\n") if p.strip()]
RECURSIVE ParagraphsFrom(_, _)
ParagraphsFrom(content, i) ==
    IF i > Len(content) THEN <<>>
    ELSE IF StrLen(StripLine(content, i)) > 0
         THEN <<StripLine(content, i)>> \o ParagraphsFrom(content, i + 1)
         ELSE ParagraphsFrom(content, i + 1)

Paragraphs(content) == ParagraphsFrom(content, 1)

\* A slip of line 285: the buffer's length left out of the test
FitsBufferParaOnly(buffer, para) == StrLen(para) <= CHUNK_SIZE

\* The test of line 285
FitsBuffer(buffer, para) == StrLen(buffer) + StrLen(para) <= CHUNK_SIZE

\* The loop of lines 284-302 over the paragraphs from k on: the texts of the
\* chunks emitted, out being those emitted so far.
RECURSIVE ChunkLoop(_, _, _, _)
ChunkLoop(paragraphs, k, buffer, out) ==
    IF k > Len(paragraphs)
    THEN IF StrLen(buffer) > 0 THEN Append(out, Strip(buffer)) ELSE out
    ELSE IF FitsBuffer(buffer, paragraphs[k])
         THEN ChunkLoop(paragraphs, k + 1, buffer \o <<Space>> \o paragraphs[k], out)
         ELSE ChunkLoop(paragraphs, k + 1, paragraphs[k], Append(out, Strip(buffer)))

\* The texts of the chunks of one document
ChunkTexts(doc) == ChunkLoop(Paragraphs(doc.content), 1, <<>>, <<>>)

\* The dict load_documents gives a file (lines 263-268): a Python dict is a
\* function from its keys.
FileMetadata(name, doc_type, iso, year) ==
    [filename |-> name, doc_type |-> doc_type,
     effective_date |-> iso, effective_year |-> year]

\* A slip of lines 291 and 300: metadata=doc.metadata, the document's own dict
MetadataShared(h, doc) == [heap |-> h, ref |-> doc.metadata]

\* Chunk(text=..., metadata=doc.metadata.copy()): the copy is a new dict
\* object holding the document's items.  The result is the heap and the
\* identity of the dict the chunk refers to.
MetadataCopy(h, doc) == [heap |-> Append(h, h[doc.metadata]), ref |-> Len(h) + 1]

\* chunks.append(Chunk(...)) for each text of one document, in order
RECURSIVE AppendChunks(_, _, _, _)
AppendChunks(texts, doc, h, out) ==
    IF texts = <<>> THEN [heap |-> h, chunks |-> out]
    ELSE LET m == MetadataCopy(h, doc)
         IN  AppendChunks(Tail(texts), doc, m.heap,
                          Append(out, [text |-> Head(texts), metadata |-> m.ref]))

\* chunk_documents(documents) from document d on; the result is the heap and
\* the list of chunks.
RECURSIVE ChunkDocs(_, _, _, _)
ChunkDocs(docs, d, h, out) ==
    IF d > Len(docs) THEN [heap |-> h, chunks |-> out]
    ELSE LET r == AppendChunks(ChunkTexts(docs[d]), docs[d], h, out)
         IN  ChunkDocs(docs, d + 1, r.heap, r.chunks)

chunk_documents ==
    /\ pc = "chunk"
    /\ LET r == ChunkDocs(documents, 1, heap, <<>>)
       IN  /\ heap' = r.heap
           /\ chunks' = r.chunks
    /\ pc' = "chunked"
    /\ UNCHANGED <<documents, dateVars, queryVars, pipeVars>>

\* chunk.metadata[key] = value on the i-th chunk returned
SetItem(d, key, value) ==
    [k \in DOMAIN d \cup {key} |-> IF k = key THEN value ELSE d[k]]

\* del chunk.metadata[key]
DelItem(d, key) == [k \in DOMAIN d \ {key} |-> d[k]]

MutationKeys == {"doc_type", "reviewed"}
MutationValues == {"noise", "yes"}

SetChunkMetadata ==
    /\ pc = "chunked"
    /\ \E i \in 1..Len(chunks), key \in MutationKeys, value \in MutationValues :
           heap' = [heap EXCEPT ![chunks[i].metadata] = SetItem(@, key, value)]
    /\ UNCHANGED <<pc, documents, chunks, dateVars, queryVars, pipeVars>>

DelChunkMetadata ==
    /\ pc = "chunked"
    /\ \E i \in 1..Len(chunks) :
           \E key \in MutationKeys \cap DOMAIN heap[chunks[i].metadata] :
               heap' = [heap EXCEPT ![chunks[i].metadata] = DelItem(@, key)]
    /\ UNCHANGED <<pc, documents, chunks, dateVars, queryVars, pipeVars>>

\* The files of the knowledge base the documents are loaded from
FileA == FileMetadata("wfh_policy_2024.txt", "policy", "2024-01-01T00:00:00", "2024")
FileB == FileMetadata("lunch_menu.txt", "noise", "1970-01-01T00:00:00", "1970")

\* Lists of one or two documents of at most n lines in all
DocLists(n) ==
    LET contents == SeqsUpTo(Lines, n)
    IN  {<<[content |-> c, metadata |-> 1]>> : c \in contents}
        \cup {<<[content |-> c[1], metadata |-> 1], [content |-> c[2], metadata |-> 2]>> :
                  c \in {p \in contents \X contents : Len(p[1]) + Len(p[2]) <= n}}

InitChunk ==
    /\ DateIdle
    /\ QueryIdle
    /\ PipeIdle
    /\ pc = "chunk"
    /\ heap = <<FileA, FileB>>
    /\ documents \in DocLists(MaxLines)
    /\ chunks = NoValue

NextChunk == chunk_documents

SpecChunk == InitChunk /\ [][NextChunk]_vars

\* Documents of three lines that make two or three chunks, or one
MetaContents ==
    {<<[pad |-> 0, len |-> a], [pad |-> 0, len |-> 300], [pad |-> 0, len |-> 200]>> :
         a \in {200, 300}}

InitMeta ==
    /\ DateIdle
    /\ QueryIdle
    /\ PipeIdle
    /\ pc = "chunk"
    /\ heap = <<FileA, FileB>>
    /\ documents \in {<<[content |-> c, metadata |-> 1]>> : c \in MetaContents}
                     \cup {<<[content |-> c, metadata |-> 1],
                             [content |-> c, metadata |-> 2]>> : c \in MetaContents}
    /\ chunks = NoValue

NextMeta == chunk_documents \/ SetChunkMetadata \/ DelChunkMetadata

SpecMeta == InitMeta /\ [][NextMeta]_vars

\* ------------------------------------------------------------------------
\* 4. Noise filtering (rag_pipeline.py:357-366)
\* ------------------------------------------------------------------------
\* A slip of line 362: doc_type compared with "noise" instead
KeepsChunkNotNoise(h, chunk) ==
    ~("doc_type" \in DOMAIN h[chunk.metadata] /\ h[chunk.metadata].doc_type = "noise")

\* chunk.metadata.get("doc_type") == "policy": None, of a missing key, is not
KeepsChunk(h, chunk) ==
    "doc_type" \in DOMAIN h[chunk.metadata] /\ h[chunk.metadata].doc_type = "policy"

\* [chunk for chunk in chunks if ...]
FilterNoise(h, cs) == SelectSeq(cs, LAMBDA chunk : KeepsChunk(h, chunk))

filter_noise ==
    /\ pc = "filter"
    /\ filtered' = FilterNoise(heap, chunks)
    /\ pc' = "filtered"
    /\ UNCHANGED <<dateVars, chunkVars, selected, response, answer, raised, pipeVars>>

\* The chunks of a list of metadata dicts: the i-th chunk refers to the i-th
ChunksOf(dicts) ==
    [i \in 1..Len(dicts) |-> [text |-> <<[line |-> i, len |-> 1]>>, metadata |-> i]]

FilterMetadata ==
    {[filename |-> "a.txt"],
     [filename |-> "a.txt", doc_type |-> "policy"],
     [filename |-> "a.txt", doc_type |-> "noise"],
     [filename |-> "a.txt", doc_type |-> "Policy"]}

InitFilter ==
    /\ pc = "filter"
    /\ heap \in SeqsUpTo(FilterMetadata, MaxCandidates)
    /\ chunks = ChunksOf(heap)
    /\ documents = <<>>
    /\ DateIdle
    /\ QueryIdle
    /\ PipeIdle

NextFilter == filter_noise

SpecFilter == InitFilter /\ [][NextFilter]_vars

\* ------------------------------------------------------------------------
\* 5. Conflict resolution (rag_pipeline.py:370-395)
\* ------------------------------------------------------------------------
\* datetime.fromisoformat on YYYY-MM-DD and on YYYY-MM-DDTHH:MM:SS, the two
\* shapes of the model's strings; any other string of the model is refused.
\* The times of the model are whole hours.
FromIsoformat(s) ==
    IF /\ Len(s) \in {10, 19}
       /\ DigitsAt(s, 1, 4) /\ s[5] = "-" /\ DigitsAt(s, 6, 2) /\ s[8] = "-"
       /\ DigitsAt(s, 9, 2)
       /\ Len(s) = 19 =>
              /\ DigitsAt(s, 12, 2) /\ s[14] = ":" /\ DigitsAt(s, 15, 2)
              /\ s[17] = ":" /\ DigitsAt(s, 18, 2)
              /\ IntAt(s, 12, 2) <= 23 /\ IntAt(s, 15, 2) = 0 /\ IntAt(s, 18, 2) = 0
    THEN With(Datetime(IntAt(s, 1, 4), IntAt(s, 6, 2), IntAt(s, 9, 2)), LAMBDA date :
             IF date = ValueError \/ Len(s) = 10 THEN date
             ELSE [date EXCEPT !.hour = IntAt(s, 12, 2)])
    ELSE ValueError

\* The order of datetime
DateOrdinal(d) == ((d.year * 12 + d.month) * 31 + d.day) * 24 + d.hour

\* list.sort(key=lambda x: x[0], reverse=True) is stable: a pair goes after
\* the pairs whose date is not older than its own.
InsertNewestFirst(sorted, pair) ==
    LET k == Cardinality({i \in 1..Len(sorted) :
                             DateOrdinal(sorted[i][1]) >= DateOrdinal(pair[1])})
    IN  SubSeq(sorted, 1, k) \o <<pair>> \o SubSeq(sorted, k + 1, Len(sorted))

RECURSIVE SortNewestFirst(_, _)
SortNewestFirst(pairs, sorted) ==
    IF pairs = <<>> THEN sorted
    ELSE With(InsertNewestFirst(sorted, Head(pairs)), LAMBDA next :
             SortNewestFirst(Tail(pairs), next))

\* The loop of lines 375-383 from the k-th chunk on: the pairs (date, chunk),
\* or the KeyError of chunk.metadata['filename'] (line 381)
RECURSIVE PoliciesWithDates(_, _, _, _)
PoliciesWithDates(h, cs, k, pairs) ==
    IF k > Len(cs) THEN [raised |-> "", pairs |-> pairs]
    ELSE LET metadata == h[cs[k].metadata]
         IN  IF "effective_date" \in DOMAIN metadata /\ metadata.effective_date # <<>>
             THEN With(FromIsoformat(metadata.effective_date), LAMBDA effective_date :
                      IF effective_date = ValueError
                      THEN PoliciesWithDates(h, cs, k + 1, pairs)
                      ELSE IF "filename" \notin DOMAIN metadata
                      THEN [raised |-> "KeyError", pairs |-> pairs]
                      ELSE PoliciesWithDates(h, cs, k + 1,
                                             Append(pairs, <<effective_date, cs[k]>>)))
             ELSE PoliciesWithDates(h, cs, k + 1, pairs)

\* resolve_policy_conflicts(chunks): the chunk returned, or the exception
ResolvePolicyConflicts(h, cs) ==
    With(PoliciesWithDates(h, cs, 1, <<>>), LAMBDA r :
        IF r.raised # "" THEN [raised |-> r.raised, chunk |-> NoValue]
        ELSE IF r.pairs = <<>>
        THEN (IF cs = <<>> THEN [raised |-> "IndexError", chunk |-> NoValue]
              ELSE [raised |-> "", chunk |-> cs[1]])
        ELSE [raised |-> "", chunk |-> SortNewestFirst(r.pairs, <<>>)[1][2]])

resolve_policy_conflicts ==
    /\ pc = "resolve"
    /\ LET r == ResolvePolicyConflicts(heap, chunks)
       IN  selected' = r.chunk /\ raised' = r.raised
    /\ pc' = "resolved"
    /\ UNCHANGED <<dateVars, chunkVars, filtered, response, answer, pipeVars>>

\* The effective_date strings of the model
IsoDates ==
    {<<>>,
     <<"2", "0", "2", "2", "-", "0", "1", "-", "0", "1", "T", "0", "0", ":", "0", "0", ":", "0", "0">>,
     <<"2", "0", "2", "3", "-", "0", "1", "-", "0", "1", "T", "0", "0", ":", "0", "0", ":", "0", "0">>,
     <<"2", "0", "2", "4", "-", "0", "6", "-", "0", "1", "T", "0", "0", ":", "0", "0", ":", "0", "0">>,
     <<"2", "0", "2", "4", "-", "0", "6", "-", "0", "1">>,
     <<"2", "0", "2", "4", "-", "1", "3", "-", "0", "1", "T", "0", "0", ":", "0", "0", ":", "0", "0">>}

ResolveMetadata ==
    {[doc_type |-> "policy"], [doc_type |-> "policy", filename |-> "a.txt"]}
    \cup [doc_type : {"policy"}, effective_date : IsoDates]
    \cup [doc_type : {"policy"}, filename : {"a.txt"}, effective_date : IsoDates]

InitResolve ==
    /\ pc = "resolve"
    /\ heap \in SeqsUpTo(ResolveMetadata, MaxPolicies) \ {<<>>}
    /\ chunks = ChunksOf(heap)
    /\ documents = <<>>
    /\ DateIdle
    /\ QueryIdle
    /\ PipeIdle

NextResolve == resolve_policy_conflicts

SpecResolve == InitResolve /\ [][NextResolve]_vars

\* ------------------------------------------------------------------------
\* 6. Answer generation (rag_pipeline.py:399-428)
\* ------------------------------------------------------------------------
\* str.strip() on a string of characters
RECURSIVE LStripChars(_)
LStripChars(s) == IF s # <<>> /\ IsSpace(Head(s)) THEN LStripChars(Tail(s)) ELSE s

RECURSIVE RStripChars(_)
RStripChars(s) ==
    IF s # <<>> /\ IsSpace(s[Len(s)]) THEN RStripChars(SubSeq(s, 1, Len(s) - 1)) ELSE s

StripChars(s) == RStripChars(LStripChars(s))

\* The pattern's literal, matched case-sensitively
LitSources == <<"S", "o", "u", "r", "c", "e", "s", ":">>

ExactAt(s, i, lit) ==
    /\ i + Len(lit) - 1 <= Len(s)
    /\ \A k \in 1..Len(lit) : s[i + k - 1] = lit[k]

\* ".*" without re.DOTALL: up to, and without, the next newline
RECURSIVE LineEnd(_, _)
LineEnd(s, i) == IF i <= Len(s) /\ s[i] # "\n" THEN LineEnd(s, i + 1) ELSE i - 1

\* re.sub(r"Sources:.*", "", s) from position i on: every match, left to
\* right, replaced by nothing
RECURSIVE RemoveSources(_, _, _)
RemoveSources(s, i, out) ==
    IF i > Len(s) THEN out
    ELSE IF ExactAt(s, i, LitSources)
    THEN RemoveSources(s, LineEnd(s, i + Len(LitSources)) + 1, out)
    ELSE RemoveSources(s, i + 1, Append(out, s[i]))

CitationPrefix == <<"\n", "S", "o", "u", "r", "c", "e", "s", ":", " ">>

\* generate_answer(policy_chunk, query), content being what the model said:
\* the string returned, or the KeyError of metadata['filename'] (line 426)
GenerateAnswer(h, policy_chunk, content) ==
    With(StripChars(RemoveSources(StripChars(content), 1, <<>>)), LAMBDA stripped :
        IF "filename" \in DOMAIN h[policy_chunk.metadata]
        THEN [raised |-> "",
              answer |-> stripped \o CitationPrefix \o h[policy_chunk.metadata].filename]
        ELSE [raised |-> "KeyError", answer |-> NoValue])

\* What the model may say, in pieces
ResponseParts ==
    {LitSources, <<" ">>, <<"\n">>, <<"A">>, <<"f", ".", "t", "x", "t">>}

Responses == Concatenations(ResponseParts, MaxResponseParts)

\* llm.invoke(prompt) raises (line 424)
generate_answer_fails ==
    /\ pc = "generate"
    /\ raised' = "LLMError"
    /\ pc' = "answered"
    /\ UNCHANGED <<dateVars, chunkVars, filtered, selected, response, answer, pipeVars>>

generate_answer ==
    /\ pc = "generate"
    /\ \E content \in Responses :
           /\ response' = content
           /\ LET r == GenerateAnswer(heap, selected, content)
              IN  answer' = r.answer /\ raised' = r.raised
    /\ pc' = "answered"
    /\ UNCHANGED <<dateVars, chunkVars, filtered, selected, pipeVars>>

AnswerMetadata ==
    {[doc_type |-> "policy", filename |-> <<"a", ".", "t", "x", "t">>],
     [doc_type |-> "policy"]}

InitAnswer ==
    /\ pc = "generate"
    /\ \E m \in AnswerMetadata : heap = <<m>>
    /\ chunks = ChunksOf(heap)
    /\ selected = chunks[1]
    /\ documents = <<>>
    /\ DateIdle
    /\ filtered = NoValue /\ response = NoValue /\ answer = NoValue /\ raised = ""
    /\ PipeIdle

NextAnswer == generate_answer \/ generate_answer_fails

SpecAnswer == InitAnswer /\ [][NextAnswer]_vars

\* ------------------------------------------------------------------------
\* 7. Ingestion, the vector store and run_pipeline
\*    (rag_pipeline.py:33-37, 246-273, 318-353, 432-460)
\* ------------------------------------------------------------------------
LitPolicy == <<"p", "o", "l", "i", "c", "y">>
LitTxt == <<".", "t", "x", "t">>

\* "policy" in filename.lower()
classify_document(name) ==
    IF \E i \in 1..Len(name) : LiteralAt(name, i, LitPolicy) THEN "policy" ELSE "noise"

\* filename.endswith(".txt")
EndsWithTxt(name) ==
    Len(name) >= Len(LitTxt) /\ ExactAt(name, Len(name) - Len(LitTxt) + 1, LitTxt)

\* str(n), and n in w digits with leading zeros
RECURSIVE Str(_)
Str(n) == IF n < 10 THEN <<Digits[n + 1]>> ELSE Append(Str(n \div 10), Digits[(n % 10) + 1])

RECURSIVE Padded(_, _)
Padded(n, w) == IF w = 0 THEN <<>> ELSE Append(Padded(n \div 10, w - 1), Digits[(n % 10) + 1])

\* datetime.isoformat() of a time of whole hours
Isoformat(d) ==
    Padded(d.year, 4) \o <<"-">> \o Padded(d.month, 2) \o <<"-">> \o Padded(d.day, 2)
        \o <<"T">> \o Padded(d.hour, 2) \o <<":", "0", "0", ":", "0", "0">>

\* The loop of load_documents from the k-th directory entry on: h holds the
\* metadata dicts, docs the documents
RECURSIVE LoadDocuments(_, _, _, _)
LoadDocuments(files, k, h, docs) ==
    IF k > Len(files) THEN [heap |-> h, documents |-> docs]
    ELSE IF ~EndsWithTxt(files[k].name)
    THEN LoadDocuments(files, k + 1, h, docs)
    ELSE With(extract_effective_date(files[k].text, files[k].name,
                                     [path |-> "knowledge_base/file", exists |-> TRUE,
                                      mtime |-> files[k].mtime]).date,
              LAMBDA effective_date :
                  LoadDocuments(files, k + 1,
                                Append(h, FileMetadata(files[k].name,
                                                       classify_document(files[k].name),
                                                       Isoformat(effective_date),
                                                       Str(effective_date.year))),
                                Append(docs, [content  |-> files[k].content,
                                              metadata |-> Len(h) + 1])))

\* to_langchain_documents and FAISS.from_documents: what the index keeps of
\* each chunk
IndexOfChunks(h, cs) ==
    [i \in 1..Len(cs) |-> [page_content |-> cs[i].text, metadata |-> h[cs[i].metadata]]]

\* similarity_search(query, k): k entries of the index, or all when there are
\* fewer, in the order of the scores, which is any order
Rankings(index, k) ==
    LET n == IF Len(index) < k THEN Len(index) ELSE k
    IN  {r \in [1..n -> 1..Len(index)] : \A i, j \in 1..n : i # j => r[i] # r[j]}

\* A slip of line 437: the index rebuilt whether it is there or not
UsesSavedIndexNever(dir) == FALSE

\* os.path.exists(FAISS_INDEX_DIR)
UsesSavedIndex(dir) == dir.exists

\* A slip of line 448: the test of the empty list left out
NoPolicyFoundNever(candidates) == FALSE

\* not filtered
NoPolicyFound(candidates) == candidates = <<>>

\* run_pipeline(query), down to its test of faiss_index (line 437)
run_pipeline ==
    /\ pc = "idle"
    /\ runs < MaxRuns
    /\ runs' = runs + 1
    /\ IF UsesSavedIndex(indexDir)
       THEN trace' = <<"index_found">> /\ pc' = "load"
       ELSE trace' = <<"index_missing">> /\ pc' = "load_documents"
    /\ heap' = <<>> /\ documents' = <<>> /\ chunks' = NoValue
    /\ vector_store' = NoValue /\ retrieved' = NoValue
    /\ filtered' = NoValue /\ selected' = NoValue
    /\ response' = NoValue /\ answer' = NoValue /\ raised' = ""
    /\ UNCHANGED <<dateVars, kb, indexDir, builds, deletes>>

\* An exception leaves run_pipeline
Raise(event, exception) ==
    /\ trace' = Append(trace, event)
    /\ raised' = exception
    /\ pc' = "idle"

\* line 439
RunLoadVectorStore ==
    /\ pc = "load"
    /\ vector_store' = indexDir.index
    /\ trace' = Append(trace, "load_vector_store")
    /\ pc' = "retrieve"
    /\ UNCHANGED <<dateVars, chunkVars, queryVars, kb, indexDir, retrieved,
                   runs, builds, deletes>>

\* FAISS.load_local raises
RunLoadVectorStoreFails ==
    /\ pc = "load"
    /\ Raise("load_vector_store", "LoadError")
    /\ UNCHANGED <<dateVars, chunkVars, filtered, selected, response, answer, kb,
                   indexDir, vector_store, retrieved, runs, builds, deletes>>

\* line 442
RunLoadDocuments ==
    /\ pc = "load_documents"
    /\ LET r == LoadDocuments(kb, 1, <<>>, <<>>)
       IN  heap' = r.heap /\ documents' = r.documents
    /\ trace' = Append(trace, "load_documents")
    /\ pc' = "chunk_documents"
    /\ UNCHANGED <<dateVars, chunks, queryVars, kb, indexDir, vector_store,
                   retrieved, runs, builds, deletes>>

\* line 443
RunChunkDocuments ==
    /\ pc = "chunk_documents"
    /\ LET r == ChunkDocs(documents, 1, heap, <<>>)
       IN  heap' = r.heap /\ chunks' = r.chunks
    /\ trace' = Append(trace, "chunk_documents")
    /\ pc' = "build_vector_store"
    /\ UNCHANGED <<dateVars, documents, queryVars, kb, indexDir, vector_store,
                   retrieved, runs, builds, deletes>>

\* line 444: the index made, saved and returned
RunBuildVectorStore ==
    /\ pc = "build_vector_store"
    /\ vector_store' = IndexOfChunks(heap, chunks)
    /\ indexDir' = [exists |-> TRUE, index |-> vector_store']
    /\ builds' = builds + 1
    /\ trace' = trace \o <<"build_vector_store", "save_local">>
    /\ pc' = "retrieve"
    /\ UNCHANGED <<dateVars, chunkVars, queryVars, kb, retrieved, runs, deletes>>

\* The embedding call or FAISS.from_documents raises: nothing is saved
RunBuildVectorStoreFails ==
    /\ pc = "build_vector_store"
    /\ Raise("build_vector_store", "BuildError")
    /\ UNCHANGED <<dateVars, chunkVars, filtered, selected, response, answer, kb,
                   indexDir, vector_store, retrieved, runs, builds, deletes>>

\* line 446: the chunks are made anew from what the index keeps
RunRetrieveChunks ==
    /\ pc = "retrieve"
    /\ \E r \in Rankings(vector_store, TOP_K) :
           /\ heap' = [i \in DOMAIN r |-> vector_store[r[i]].metadata]
           /\ retrieved' = [i \in DOMAIN r |->
                               [text |-> vector_store[r[i]].page_content, metadata |-> i]]
    /\ trace' = Append(trace, "retrieve_chunks")
    /\ pc' = "filter_noise"
    /\ UNCHANGED <<dateVars, documents, chunks, queryVars, kb, indexDir,
                   vector_store, runs, builds, deletes>>

\* The embedding of the query raises
RunRetrieveChunksFails ==
    /\ pc = "retrieve"
    /\ Raise("retrieve_chunks", "RetrieveError")
    /\ UNCHANGED <<dateVars, chunkVars, filtered, selected, response, answer, kb,
                   indexDir, vector_store, retrieved, runs, builds, deletes>>

\* lines 447-451
RunFilterNoise ==
    /\ pc = "filter_noise"
    /\ filtered' = FilterNoise(heap, retrieved)
    /\ IF NoPolicyFound(filtered')
       THEN trace' = trace \o <<"filter_noise", "no_policy_message">> /\ pc' = "idle"
       ELSE trace' = Append(trace, "filter_noise") /\ pc' = "resolve_policy_conflicts"
    /\ UNCHANGED <<dateVars, chunkVars, selected, response, answer, raised, kb,
                   indexDir, vector_store, retrieved, runs, builds, deletes>>

\* line 453
RunResolvePolicyConflicts ==
    /\ pc = "resolve_policy_conflicts"
    /\ LET r == ResolvePolicyConflicts(heap, filtered)
       IN  /\ selected' = r.chunk
           /\ IF r.raised # ""
              THEN Raise("resolve_policy_conflicts", r.raised)
              ELSE /\ trace' = Append(trace, "resolve_policy_conflicts")
                   /\ pc' = "generate_answer"
                   /\ raised' = raised
    /\ UNCHANGED <<dateVars, chunkVars, filtered, response, answer, kb, indexDir,
                   vector_store, retrieved, runs, builds, deletes>>

\* What the model says in run_pipeline
PipelineResponses ==
    {<<"A">>, <<"A", "\n">> \o LitSources \o <<" ">> \o <<"f", ".", "t", "x", "t">>}

\* lines 454-460: the answer made and printed
RunGenerateAnswer ==
    /\ pc = "generate_answer"
    /\ \E content \in PipelineResponses :
           /\ response' = content
           /\ LET r == GenerateAnswer(heap, selected, content)
              IN  /\ answer' = r.answer
                  /\ IF r.raised # ""
                     THEN Raise("llm_invoke", r.raised)
                     ELSE /\ trace' = trace \o <<"llm_invoke", "print_answer">>
                          /\ pc' = "idle"
                          /\ raised' = raised
    /\ UNCHANGED <<dateVars, chunkVars, filtered, selected, kb, indexDir,
                   vector_store, retrieved, runs, builds, deletes>>

\* llm.invoke raises
RunGenerateAnswerFails ==
    /\ pc = "generate_answer"
    /\ Raise("llm_invoke", "LLMError")
    /\ UNCHANGED <<dateVars, chunkVars, filtered, selected, response, answer, kb,
                   indexDir, vector_store, retrieved, runs, builds, deletes>>

\* The files of the model. Of a file's content the model keeps its first
\* characters, from which the date is taken, and the widths of its lines,
\* from which the chunks are made.
File(name, t, widths, mtime) ==
    [name |-> name, text |-> t,
     content |-> [i \in 1..Len(widths) |-> [pad |-> 0, len |-> widths[i]]],
     mtime |-> mtime]

PolicyCorpus ==
    <<File(<<"w", "f", "h", "_", "p", "o", "l", "i", "c", "y", "_", "2", "0", "2", "2", ".", "t", "x", "t">>,
           <<"E", "f", "f", "e", "c", "t", "i", "v", "e", " ", "D", "a", "t", "e", ":", " ", "M", "a", "r", " ", "3", ",", " ", "2", "0", "2", "2", " ">>,
           <<200>>, FileTime),
      File(<<"W", "F", "H", "_", "P", "o", "l", "i", "c", "y", "_", "2", "0", "2", "4", ".", "t", "x", "t">>, <<>>, <<200>>, FileTime),
      File(<<"l", "u", "n", "c", "h", "_", "m", "e", "n", "u", ".", "t", "x", "t">>, <<>>, <<300, 300, 300, 300>>, FileTime),
      File(<<"n", "o", "t", "e", "s", ".", "m", "d">>, <<>>, <<1>>, FileTime)>>

NoiseCorpus ==
    <<File(<<"l", "u", "n", "c", "h", "_", "m", "e", "n", "u", ".", "t", "x", "t">>, <<>>, <<300, 300>>, FileTime),
      File(<<"p", "a", "r", "t", "y", "_", "2", "0", "2", "3", ".", "t", "x", "t">>, <<>>, <<1>>, FileTime)>>

Corpora == {PolicyCorpus, NoiseCorpus}

\* The knowledge base is edited between two runs
ChangeKnowledgeBase ==
    /\ pc = "idle"
    /\ kb' \in Corpora \ {kb}
    /\ UNCHANGED <<pc, dateVars, chunkVars, queryVars, indexDir, vector_store,
                   retrieved, trace, runs, builds, deletes>>

\* faiss_index is removed between two runs
DeleteIndex ==
    /\ pc = "idle"
    /\ indexDir.exists
    /\ deletes < MaxDeletes
    /\ indexDir' = NoIndex
    /\ deletes' = deletes + 1
    /\ UNCHANGED <<pc, dateVars, chunkVars, queryVars, kb, vector_store,
                   retrieved, trace, runs, builds>>

InitPipeline ==
    /\ pc = "idle"
    /\ kb \in Corpora
    /\ indexDir = NoIndex /\ vector_store = NoValue
    /\ retrieved = NoValue /\ trace = <<>>
    /\ runs = 0 /\ builds = 0 /\ deletes = 0
    /\ DateIdle
    /\ ChunkIdle
    /\ filtered = NoValue /\ selected = NoValue
    /\ response = NoValue /\ answer = NoValue /\ raised = ""

NextPipeline ==
    \/ run_pipeline
    \/ RunLoadVectorStore
    \/ RunLoadVectorStoreFails
    \/ RunLoadDocuments
    \/ RunChunkDocuments
    \/ RunBuildVectorStore
    \/ RunBuildVectorStoreFails
    \/ RunRetrieveChunks
    \/ RunRetrieveChunksFails
    \/ RunFilterNoise
    \/ RunResolvePolicyConflicts
    \/ RunGenerateAnswer
    \/ RunGenerateAnswerFails
    \/ ChangeKnowledgeBase
    \/ DeleteIndex

SpecPipeline == InitPipeline /\ [][NextPipeline]_vars

\* ------------------------------------------------------------------------
\* Properties of chunk_documents
\* ------------------------------------------------------------------------
\* The stripped lines a text is made of, in order
TextParagraphs(t) == SelectSeq(t, LAMBDA part : part # Space)

RECURSIVE Flatten(_)
Flatten(ss) == IF ss = <<>> THEN <<>> ELSE Head(ss) \o Flatten(Tail(ss))

\* The non-blank lines of a document, in order, each with its line number
NonBlankLines(doc) ==
    SelectSeq([i \in 1..Len(doc.content) |-> [line |-> i, len |-> doc.content[i].len]],
              LAMBDA l : l.len > 0)

\* The metadata every chunk is expected to hold, in the order of the chunks
ExpectedMetadata(docs, h) ==
    Flatten([d \in 1..Len(docs) |->
                [k \in 1..Len(ChunkTexts(docs[d])) |-> h[docs[d].metadata]]])

\* C7: every chunk made by chunk_documents holds the items of its
\* document's metadata, and a step that changes the metadata seen through
\* one chunk changes neither the metadata seen through any other chunk nor
\* the metadata of any document.
C7_IndependentCopies ==
    [][/\ (pc = "chunk" /\ pc' = "chunked") =>
             /\ [i \in 1..Len(chunks') |-> heap'[chunks'[i].metadata]]
                    = ExpectedMetadata(documents, heap)
             /\ \A d \in 1..Len(documents) :
                    heap'[documents[d].metadata] = heap[documents[d].metadata]
       /\ (pc = "chunked" /\ pc' = "chunked") =>
             \A i \in 1..Len(chunks) :
                 heap'[chunks[i].metadata] # heap[chunks[i].metadata] =>
                     /\ \A j \in 1..Len(chunks) \ {i} :
                            heap'[chunks[j].metadata] = heap[chunks[j].metadata]
                     /\ \A d \in 1..Len(documents) :
                            heap'[documents[d].metadata] = heap[documents[d].metadata]]_vars

\* A chunk's metadata was changed and its sibling from the same document
\* still holds the document's metadata.
C7_Witness ==
    /\ pc = "chunked"
    /\ Len(documents) = 1
    /\ \E i, j \in 1..Len(chunks) :
           /\ i # j
           /\ heap[chunks[i].metadata] # heap[documents[1].metadata]
           /\ heap[chunks[j].metadata] = heap[documents[1].metadata]

\* C9, as stated: every chunk that joins two or more paragraphs has at
\* most CHUNK_SIZE characters.
C9_JoinedWithinChunkSize ==
    pc = "chunked" =>
        \A i \in 1..Len(chunks) :
            Len(TextParagraphs(chunks[i].text)) >= 2 =>
                StrLen(chunks[i].text) <= CHUNK_SIZE

\* C9, amended: every chunk that joins two or more paragraphs has at most
\* CHUNK_SIZE + 1 characters, and its paragraphs are joined by single
\* spaces; a longer chunk is one paragraph.
C9_JoinedWithinChunkSizePlusOne ==
    pc = "chunked" =>
        \A i \in 1..Len(chunks) :
            LET t == chunks[i].text
                n == Len(TextParagraphs(t))
            IN  n >= 2 =>
                    /\ StrLen(t) <= CHUNK_SIZE + 1
                    /\ StrLen(t) = SumLen(TextParagraphs(t)) + (n - 1)

\* A chunk of two paragraphs that has CHUNK_SIZE + 1 characters
C9_Witness ==
    /\ pc = "chunked"
    /\ \E i \in 1..Len(chunks) :
           /\ Len(TextParagraphs(chunks[i].text)) = 2
           /\ StrLen(chunks[i].text) = CHUNK_SIZE + 1

\* C10: no chunk has empty text, and the chunks hold each non-blank line
\* of the documents exactly once, in document order.
C10_NoEmptyChunk ==
    pc = "chunked" =>
        /\ \A i \in 1..Len(chunks) : StrLen(chunks[i].text) > 0
        /\ Flatten([i \in 1..Len(chunks) |-> TextParagraphs(chunks[i].text)])
               = Flatten([d \in 1..Len(documents) |-> NonBlankLines(documents[d])])

\* ------------------------------------------------------------------------
\* Properties of extract_date_from_filename
\* ------------------------------------------------------------------------
\* The year of the first run of four digits of a name (-1: no such run)
FirstYear(s) ==
    LET i == Leftmost({j \in 1..Len(s) : DigitsAt(s, j, 4)})
    IN  IF i = 0 THEN -1 ELSE IntAt(s, i, 4)

InCentury(y) == y \in 2000..2099

\* The name holds YYYY[-_]MM[-_]DD for this date
HoldsFullDate(s, date) ==
    \E i \in 1..Len(s) :
        /\ FullDateAt(s, i)
        /\ date.year = IntAt(s, i, 4)
        /\ date.month = IntAt(s, i + 5, 2)
        /\ date.day = IntAt(s, i + 8, 2)

\* The name holds <three to nine letters>[-_]YYYY for this year
HoldsMonthYear(s, date) ==
    \E i \in 1..Len(s), n \in 3..9 :
        MonthYearAt(s, i, n) /\ date.year = IntAt(s, i + n + 1, 4)

\* C5, as stated: a name whose first run of four digits is a year outside
\* [2000, 2099] yields no result, and every date returned has its year
\* within [2000, 2099].
C5_YearOutsideCenturyYieldsNothing ==
    pc = "done" =>
        /\ (FirstYear(filename) # -1 /\ ~InCentury(FirstYear(filename)))
               => result = NoValue
        /\ result # NoValue => InCentury(result.year)

\* C5, amended: a first run of four digits within [2000, 2099] gives January
\* 1st of that year; one outside is never returned as a bare year: the name
\* then yields a result only through a full date YYYY[-_]MM[-_]DD it holds
\* (whatever its year) or through a month name and a year within
\* [2000, 2099]; every date returned with a year outside [2000, 2099] is a
\* full date the name holds.
C5_BareYearOnlyWithinCentury ==
    pc = "done" =>
        /\ result # ValueError
        /\ InCentury(FirstYear(filename))
               => result = [year |-> FirstYear(filename), month |-> 1, day |-> 1, hour |-> 0]
        /\ FirstYear(filename) = -1 => result = NoValue
        /\ (result # NoValue /\ ~InCentury(FirstYear(filename)))
               => \/ HoldsFullDate(filename, result)
                  \/ /\ HoldsMonthYear(Lower(filename), result)
                     /\ InCentury(result.year) /\ result.day = 1
        /\ (result # NoValue /\ ~InCentury(result.year))
               => HoldsFullDate(filename, result)

\* A name whose first run of four digits is 1999 and that yields a date
C5_Witness ==
    /\ pc = "done"
    /\ FirstYear(filename) = 1999
    /\ result # NoValue
    /\ result.year = 1999

\* ------------------------------------------------------------------------
\* Properties of extract_effective_date
\* ------------------------------------------------------------------------
IsDate(x) == DOMAIN x = {"year", "month", "day", "hour"}

\* C1: extract_effective_date returns a date and raises nothing; the date is
\* the content's when the content yields one, else the file name's when the
\* name yields one, else the modification time when a path is given and
\* exists, else 1970-01-01; no strategy is consulted after one has produced
\* a result.
C1_StrictPriority ==
    pc = "done" =>
        LET c == extract_date_from_content(text)
            f == extract_date_from_filename(filename)
            onDisk == /\ filepath # NoValue
                      /\ filepath.path # ""
                      /\ filepath.exists
        IN  /\ IsDate(result)
            /\ IsDate(c) => result = c /\ calls = <<"content">>
            /\ (~IsDate(c) /\ IsDate(f))
                   => result = f /\ calls = <<"content", "filename">>
            /\ (~IsDate(c) /\ ~IsDate(f) /\ onDisk)
                   => result = filepath.mtime /\ calls = <<"content", "filename", "mtime">>
            /\ (~IsDate(c) /\ ~IsDate(f) /\ ~onDisk)
                   => /\ result = [year |-> 1970, month |-> 1, day |-> 1, hour |-> 0]
                      /\ calls = <<"content", "filename", "default">>

\* The content has no date and the name WFH_Policy_2024.txt gives 2024-01-01
C1_Witness ==
    /\ pc = "done"
    /\ calls = <<"content", "filename">>
    /\ result = [year |-> 2024, month |-> 1, day |-> 1, hour |-> 0]

\* ------------------------------------------------------------------------
\* Properties of filter_noise
\* ------------------------------------------------------------------------
\* The positions of the policy chunks of a list
PolicyPositions(h, cs) ==
    {i \in 1..Len(cs) :
        "doc_type" \in DOMAIN h[cs[i].metadata] /\ h[cs[i].metadata].doc_type = "policy"}

\* The k-th smallest member of a set of numbers
Nth(S, k) == CHOOSE i \in S : Cardinality({j \in S : j <= i}) = k

\* C8: filter_noise returns the candidates whose doc_type is "policy", in
\* their order in the input; those kept and those dropped are the whole
\* input; the input list and its chunks are left as they were.
C8_FilterKeepsPolicyInOrder ==
    [][pc = "filter" =>
           LET kept    == PolicyPositions(heap, chunks)
               dropped == (1..Len(chunks)) \ kept
           IN  /\ Len(filtered') = Cardinality(kept)
               /\ \A k \in 1..Len(filtered') : filtered'[k] = chunks[Nth(kept, k)]
               /\ Len(filtered') + Cardinality(dropped) = Len(chunks)
               /\ chunks' = chunks
               /\ heap' = heap]_vars

\* Two policy chunks were kept in their order and a noise chunk between
\* them was dropped.
C8_Witness ==
    /\ pc = "filtered"
    /\ Len(chunks) >= 3
    /\ PolicyPositions(heap, chunks) = {1, 3}
    /\ filtered = <<chunks[1], chunks[3]>>

\* ------------------------------------------------------------------------
\* Properties of resolve_policy_conflicts
\* ------------------------------------------------------------------------
\* The positions of the chunks whose effective_date parses
DatedPositions(h, cs) ==
    {i \in 1..Len(cs) :
        /\ "effective_date" \in DOMAIN h[cs[i].metadata]
        /\ h[cs[i].metadata].effective_date # <<>>
        /\ FromIsoformat(h[cs[i].metadata].effective_date) # ValueError}

DateOfChunk(h, chunk) == DateOrdinal(FromIsoformat(h[chunk.metadata].effective_date))

\* C2: resolve_policy_conflicts raises nothing and returns the earliest, in
\* input order, of the candidates whose effective_date parses to the
\* greatest date, or the first candidate when no effective_date parses; the
\* chunk returned is one of the input.
C2_LatestFirstInInputOrder ==
    pc = "resolved" =>
        LET dated  == DatedPositions(heap, chunks)
            latest == {i \in dated : \A j \in dated :
                          DateOfChunk(heap, chunks[j]) <= DateOfChunk(heap, chunks[i])}
        IN  /\ raised = ""
            /\ \E i \in 1..Len(chunks) : selected = chunks[i]
            /\ dated = {} => selected = chunks[1]
            /\ dated # {} => selected = chunks[Nth(latest, 1)]

\* ------------------------------------------------------------------------
\* Properties of generate_answer
\* ------------------------------------------------------------------------
\* The first position of a literal in a string, 0 when it is not there
FirstOccurrence(s, lit) ==
    LET at == {i \in 1..Len(s) : ExactAt(s, i, lit)}
    IN  IF at = {} THEN 0 ELSE CHOOSE i \in at : \A j \in at : i <= j

\* What the model said before its first "Sources:"
BeforeSources(s) ==
    IF FirstOccurrence(s, LitSources) = 0 THEN s
    ELSE SubSeq(s, 1, FirstOccurrence(s, LitSources) - 1)

\* C4: the answer is what the model said before its first "Sources:",
\* nothing of what it said from there to the end of its text, followed by
\* the one citation line made of the chunk's filename.
C4_NothingAfterFirstSourcesSurvives ==
    pc = "answered" /\ raised = "" =>
        answer = StripChars(BeforeSources(StripChars(response)))
                     \o CitationPrefix \o heap[selected.metadata].filename

\* ------------------------------------------------------------------------
\* Properties of run_pipeline
\* ------------------------------------------------------------------------
Count(event) == Cardinality({i \in 1..Len(trace) : trace[i] = event})

Happened(event) == Count(event) > 0

\* The events are in the trace one right after the other
Consecutive(events) ==
    \E i \in 1..Len(trace) :
        /\ i + Len(events) - 1 <= Len(trace)
        /\ \A k \in 1..Len(events) : trace[i + k - 1] = events[k]

\* C3: once the candidates are filtered and none of those retrieved is a
\* policy, the run has ended with the no-policy message, without a call of
\* the language model and without an answer printed; the language model is
\* called at most once in a run, and only with a non-empty filtered list,
\* right after retrieval, filtering and conflict resolution in that order;
\* an answer is printed only after that call.
C3_ModelCalledOnlyWithPolicy ==
    /\ (Happened("filter_noise") /\ PolicyPositions(heap, retrieved) = {}) =>
           /\ pc = "idle"
           /\ trace[Len(trace)] = "no_policy_message"
           /\ ~Happened("llm_invoke")
           /\ ~Happened("print_answer")
    /\ Count("llm_invoke") <= 1
    /\ Happened("llm_invoke") =>
           /\ Len(filtered) > 0
           /\ Consecutive(<<"retrieve_chunks", "filter_noise",
                            "resolve_policy_conflicts", "llm_invoke">>)
    /\ Happened("print_answer") => Happened("llm_invoke")
    /\ Happened("no_policy_message") => PolicyPositions(heap, retrieved) = {}

\* A run over an index that holds policy chunks retrieved none of them and
\* ended with the no-policy message.
C3_Witness ==
    /\ pc = "idle"
    /\ Happened("no_policy_message")
    /\ Len(retrieved) = TOP_K
    /\ \E i \in 1..Len(vector_store) : vector_store[i].metadata.doc_type = "policy"

BuildEvents == {"load_documents", "chunk_documents", "build_vector_store", "save_local"}

\* C6: a run that found faiss_index loads no documents, makes no chunks and
\* builds nothing, and queries the saved index as it is, whatever the
\* knowledge base has become; a run that did not find it queries only after
\* loading, chunking, building and saving, in that order; there are no more
\* builds than removals of the directory plus one.
C6_IndexDirectoryDecidesRebuild ==
    /\ (trace # <<>> /\ trace[1] = "index_found") =>
           /\ \A event \in BuildEvents : ~Happened(event)
           /\ Happened("retrieve_chunks") =>
                  /\ SubSeq(trace, 1, 3) = <<"index_found", "load_vector_store",
                                             "retrieve_chunks">>
                  /\ pc # "idle" => vector_store = indexDir.index
    /\ (trace # <<>> /\ trace[1] = "index_missing" /\ Happened("retrieve_chunks")) =>
           /\ SubSeq(trace, 1, 6) = <<"index_missing", "load_documents",
                                      "chunk_documents", "build_vector_store",
                                      "save_local", "retrieve_chunks">>
           /\ pc # "idle" => vector_store = indexDir.index
    /\ builds <= deletes + 1
    /\ deletes = 0 => builds <= 1

\* A run found the directory and queried the saved index although the
\* knowledge base is no longer the one the index was built from.
C6_Witness ==
    /\ trace # <<>> /\ trace[1] = "index_found"
    /\ Happened("retrieve_chunks")
    /\ kb = NoiseCorpus
    /\ \E i \in 1..Len(vector_store) : vector_store[i].metadata.doc_type = "policy"
    /\ deletes = 0 /\ builds = 1 /\ runs >= 2
====
